---- MODULE Spec2Model ----
(***************************************************************************)
(* Model of the Bitrise artifact download step (src/main.go).              *)
(*                                                                         *)
(* Strings are modelled as natural numbers; 0 is the empty string "", and  *)
(* the order on the numbers is the byte order of the strings they stand    *)
(* for.  One run of the process is one behaviour: main calls mainE, whose  *)
(* blocking steps are the actions below.                                   *)
(***************************************************************************)
EXTENDS Naturals, Integers, Sequences, FiniteSets, TLC

VARIABLES
    pc,              \* position of the process inside main / mainE
    environ,         \* the process environment (os.Getenv)
    fs,              \* the download directory and the output file
    accessToken,     \* locals of mainE
    appSlug,
    buildSlug,
    artifactName,
    downloadDir,
    artifacts,       \* artifacts.Data as decoded by GetArtifactsForBuild
    artifactSlugMap,
    artifactSlug,
    artifact,        \* artifact.Data.ExpiringDownloadURL inside DownloadArtifact
    reader,          \* the stream returned by DownloadArtifact
    n,               \* bytes copied by io.Copy
    err,             \* the error mainE returns
    requests,        \* every HTTP request put on the wire, in order
    resp,            \* the latest HTTP response received and whether it was decoded
    bodies,          \* per response body: "none", "open" or "closed"
    stdout,          \* what fmt.Printf wrote
    exitCode,        \* -1 while running, then the argument of os.Exit
    steps            \* the steps of mainE that have run, in order

vars == <<pc, environ, fs, accessToken, appSlug, buildSlug, artifactName,
          downloadDir, artifacts, artifactSlugMap, artifactSlug, artifact,
          reader, n, err, requests, resp, bodies, stdout, exitCode, steps>>

----------------------------------------------------------------------------
(* Bounds of the model *)

MaxTitle == 2       \* artifact titles / names are 1..MaxTitle
MaxArtifacts == 2   \* longest listing
MaxBytes == 2       \* longest download stream

(* Program constants *)

domain == "https://api.bitrise.io"
apiVersion == "v0.1"
Timeout == 20
DefaultClientTimeout == 0

Tokens == {0, 1}
Dirs == {0, 1}
URLs == {0, 1}
Slugs == {1, 2}
Titles == 1..MaxTitle
StatusCodes == {199, 200, 299, 300, 404}
DownloadStatusCodes == {200, 404}

EnvKeys == {"API_AUTH_TOKEN", "APP_SLUG", "WORKFLOW_SLUG_ID", "ARTIFACT_NAME", "DOWNLOAD_DIR"}

SeqsUpTo(S, k) == UNION {[1..m -> S] : m \in 0..k}

Range(s) == {s[i] : i \in DOMAIN s}

----------------------------------------------------------------------------
(* Data *)

ArtifactSummary == [Title : Titles, Slug : Slugs]

Listings == SeqsUpTo(ArtifactSummary, MaxArtifacts)

EmptyMap == [t \in {} |-> 0]

NoErr == [kind |-> "nil"]

errNoEnv(env) == [kind |-> "noenv", env |-> env]

NetErr(timedOut) == [kind |-> "net", timeout |-> timedOut]

DecodeErr(what) == [kind |-> "decode", what |-> what]

FsErr(op) == [kind |-> "fs", op |-> op]

(* fmt.Errorf("failed to get ... with status code (%d) for                 *)
(*   [build_slug: %s, app_slug: %s]", resp.StatusCode, appSlug, buildSlug): *)
(* the first %s, labelled build_slug, receives the first string argument.   *)
StatusErr(what, code, arg1, arg2) ==
    [kind |-> "status", what |-> what, code |-> code,
     build_slug |-> arg1, app_slug |-> arg2]

----------------------------------------------------------------------------
(* The transport *)

Refused == [net |-> "refused", status |-> 0, valid |-> FALSE]
Silent == [net |-> "silent", status |-> 0, valid |-> FALSE]

(* What the remote side of an API request may do: refuse the connection,   *)
(* never answer, or answer with a status and a body that is either valid   *)
(* JSON of the expected shape (carrying data) or not.                      *)
ApiOutcomes(Payloads, zero) ==
    {[net |-> o.net, status |-> o.status, valid |-> o.valid, data |-> zero] :
        o \in {Refused, Silent}}
    \cup {[net |-> "ok", status |-> s, valid |-> FALSE, data |-> zero] : s \in StatusCodes}
    \cup {[net |-> "ok", status |-> s, valid |-> TRUE, data |-> d] :
            s \in StatusCodes, d \in Payloads}

NoBody == [len |-> 0, end |-> "none"]

Streams == [len : 0..MaxBytes, end : {"eof", "readerr", "stall"}]

DirectOutcomes ==
    {[net |-> o.net, status |-> o.status, body |-> NoBody] : o \in {Refused, Silent}}
    \cup {[net |-> "ok", status |-> s, body |-> b] : s \in DownloadStatusCodes, b \in Streams}

(* http.Client.Do under a client timeout (0 = none): a remote side that    *)
(* never answers yields a timeout error when the timeout is set and blocks *)
(* the caller forever when it is not.                                      *)
Do(timeout, outcome) ==
    CASE outcome.net = "ok" -> [got |-> TRUE, err |-> NoErr, blocked |-> FALSE]
      [] outcome.net = "refused" -> [got |-> FALSE, err |-> NetErr(FALSE), blocked |-> FALSE]
      [] outcome.net = "silent" ->
            IF timeout > 0
            THEN [got |-> FALSE, err |-> NetErr(TRUE), blocked |-> FALSE]
            ELSE [got |-> FALSE, err |-> NoErr, blocked |-> TRUE]

(* Variant: the Authorization header is not added *)
getRequestNoAuth(authToken, endpoint) ==
    [base |-> domain, version |-> apiVersion, target |-> endpoint,
     auth |-> 0, timeout |-> Timeout]

(* Client.get: the request it builds *)
getRequest(authToken, endpoint) ==
    [base |-> domain, version |-> apiVersion, target |-> endpoint,
     auth |-> authToken, timeout |-> Timeout]

(* fmt.Sprintf("apps/%s/builds/%s/artifacts", ...) and                     *)
(* fmt.Sprintf("apps/%s/builds/%s/artifacts/%s", ...); artifact 0 is the   *)
(* listing path.                                                           *)
requestPath(app, build, art) == [app |-> app, build |-> build, artifact |-> art, url |-> 0]

(* http.Get(url): the request the default client builds *)
httpGetRequest(url) ==
    [base |-> "", version |-> "",
     target |-> [app |-> 0, build |-> 0, artifact |-> 0, url |-> url],
     auth |-> 0, timeout |-> DefaultClientTimeout]

(* Variant: the upper bound of the status test is off by one *)
StatusFailedOffByOne(code) == code > 300 \/ code < 200

StatusFailed(code) == code >= 300 \/ code < 200

(* The body of GetArtifactsForBuild / GetArtifactDetails after c.get:      *)
(* what is returned, whether Decode ran, and the state of the body.        *)
ApiCall(what, a, b, zero, outcome) ==
    LET d == Do(Timeout, outcome) IN
    IF ~d.got
    THEN [art |-> zero, err |-> d.err, decoded |-> FALSE, body |-> "none"]
    ELSE IF StatusFailed(outcome.status)
    THEN [art |-> zero, err |-> StatusErr(what, outcome.status, a, b),
          decoded |-> FALSE, body |-> "closed"]
    ELSE IF outcome.valid
    THEN [art |-> outcome.data, err |-> NoErr, decoded |-> TRUE, body |-> "closed"]
    ELSE [art |-> zero, err |-> DecodeErr(what), decoded |-> TRUE, body |-> "closed"]

----------------------------------------------------------------------------
(* mainE *)

(* Variant: ARTIFACT_NAME is not checked *)
MissingEnvNoName(e) ==
    IF e["API_AUTH_TOKEN"] = 0 THEN "API_AUTH_TOKEN"
    ELSE IF e["APP_SLUG"] = 0 THEN "APP_SLUG"
    ELSE IF e["WORKFLOW_SLUG_ID"] = 0 THEN "WORKFLOW_SLUG_ID"
    ELSE ""

(* The first of the four required variables that is unset or empty, "" if none *)
MissingEnv(e) ==
    IF e["API_AUTH_TOKEN"] = 0 THEN "API_AUTH_TOKEN"
    ELSE IF e["APP_SLUG"] = 0 THEN "APP_SLUG"
    ELSE IF e["WORKFLOW_SLUG_ID"] = 0 THEN "WORKFLOW_SLUG_ID"
    ELSE IF e["ARTIFACT_NAME"] = 0 THEN "ARTIFACT_NAME"
    ELSE ""

Put(m, k, v) == [x \in DOMAIN m \cup {k} |-> IF x = k THEN v ELSE m[x]]

RECURSIVE RangeLoop(_, _, _)
RangeLoop(data, i, m) ==
    IF i > Len(data) THEN m
    ELSE RangeLoop(data, i + 1, Put(m, data[i].Title, data[i].Slug))

RECURSIVE RangeLoopKeepFirst(_, _, _)
RangeLoopKeepFirst(data, i, m) ==
    IF i > Len(data) THEN m
    ELSE RangeLoopKeepFirst(data, i + 1,
             IF data[i].Title \in DOMAIN m THEN m ELSE Put(m, data[i].Title, data[i].Slug))

(* Variant: an earlier entry is not overwritten on a title collision *)
BuildSlugMapFirstWins(data) == RangeLoopKeepFirst(data, 1, EmptyMap)

(* lines 173-176: the loop that fills artifactSlugMap *)
BuildSlugMap(data) == RangeLoop(data, 1, EmptyMap)

(* json.MarshalIndent of a map[string]string: one "key": "value" line per  *)
(* key, keys in sorted order.                                              *)
RECURSIVE MarshalIndent(_)
MarshalIndent(m) ==
    IF DOMAIN m = {} THEN <<>>
    ELSE LET k == CHOOSE x \in DOMAIN m : \A y \in DOMAIN m : x <= y
         IN <<[key |-> k, value |-> m[k]]>>
            \o MarshalIndent([x \in DOMAIN m \ {k} |-> m[x]])

(* Variant: the message carries the titles without their slugs *)
NotFoundErrTitlesOnly(name, m) ==
    [kind |-> "notfound", name |-> name,
     keys |-> MarshalIndent([t \in DOMAIN m |-> 0])]

(* lines 180-184 *)
NotFoundErr(name, m) == [kind |-> "notfound", name |-> name, keys |-> MarshalIndent(m)]

(* Variant: main exits 0 whatever mainE returned *)
ExitCodeAlwaysZero(e) == 0

(* lines 207-212: the status main exits with *)
ExitCode(e) == IF e # NoErr THEN 1 ELSE 0

----------------------------------------------------------------------------
Init ==
    /\ pc = "mainE"
    /\ \E t \in Tokens, a \in {0} \cup Slugs, b \in {0} \cup Slugs,
          name \in {0} \cup Titles, d \in Dirs :
         environ = [k \in EnvKeys |->
                      CASE k = "API_AUTH_TOKEN" -> t
                        [] k = "APP_SLUG" -> a
                        [] k = "WORKFLOW_SLUG_ID" -> b
                        [] k = "ARTIFACT_NAME" -> name
                        [] k = "DOWNLOAD_DIR" -> d]
    /\ fs \in {[dir |-> FALSE, file |-> "absent", size |-> 0],
               [dir |-> TRUE, file |-> "absent", size |-> 0],
               [dir |-> TRUE, file |-> "old", size |-> 1]}
    /\ accessToken = 0
    /\ appSlug = 0
    /\ buildSlug = 0
    /\ artifactName = 0
    /\ downloadDir = 0
    /\ artifacts = <<>>
    /\ artifactSlugMap = EmptyMap
    /\ artifactSlug = 0
    /\ artifact = 0
    /\ reader = NoBody
    /\ n = 0
    /\ err = NoErr
    /\ requests = <<>>
    /\ resp = [what |-> "", got |-> FALSE, status |-> 0, valid |-> FALSE, decoded |-> FALSE]
    /\ bodies = [op \in {"artifacts", "artifact details", "download"} |-> "none"]
    /\ stdout = <<>>
    /\ exitCode = -1
    /\ steps = <<>>

(* lines 133-161: read the configuration *)
ReadConfig ==
    /\ pc = "mainE"
    /\ steps' = Append(steps, "config")
    /\ LET missing == MissingEnv(environ) IN
       IF missing # ""
       THEN /\ err' = errNoEnv(missing)
            /\ pc' = "return"
            /\ UNCHANGED <<accessToken, appSlug, buildSlug, artifactName, downloadDir>>
       ELSE /\ accessToken' = environ["API_AUTH_TOKEN"]
            /\ appSlug' = environ["APP_SLUG"]
            /\ buildSlug' = environ["WORKFLOW_SLUG_ID"]
            /\ artifactName' = environ["ARTIFACT_NAME"]
            /\ downloadDir' = environ["DOWNLOAD_DIR"]
            /\ pc' = "mkdir"
            /\ err' = NoErr
    /\ UNCHANGED <<environ, fs, artifacts, artifactSlugMap, artifactSlug, artifact,
                   reader, n, requests, resp, bodies, stdout, exitCode>>

(* lines 163-165: os.MkdirAll *)
MkdirAll ==
    /\ pc = "mkdir"
    /\ steps' = Append(steps, "mkdir")
    /\ \E ok \in BOOLEAN :
         IF ok \/ fs.dir
         THEN /\ fs' = [fs EXCEPT !.dir = TRUE]
              /\ pc' = "list"
              /\ err' = NoErr
         ELSE /\ fs' = fs
              /\ pc' = "return"
              /\ err' = FsErr("mkdir")
    /\ UNCHANGED <<environ, accessToken, appSlug, buildSlug, artifactName, downloadDir,
                   artifacts, artifactSlugMap, artifactSlug, artifact, reader, n,
                   requests, resp, bodies, stdout, exitCode>>

(* lines 167-171 and 70-86: New, then GetArtifactsForBuild *)
GetArtifactsForBuild ==
    /\ pc = "list"
    /\ steps' = Append(steps, "list")
    /\ requests' = Append(requests, getRequest(accessToken, requestPath(appSlug, buildSlug, 0)))
    /\ \E outcome \in ApiOutcomes(Listings, <<>>) :
         LET r == ApiCall("artifacts", appSlug, buildSlug, <<>>, outcome) IN
         /\ artifacts' = r.art
         /\ err' = r.err
         /\ resp' = [what |-> "artifacts", got |-> r.body # "none", status |-> outcome.status,
                     valid |-> outcome.valid, decoded |-> r.decoded]
         /\ bodies' = [bodies EXCEPT !["artifacts"] = r.body]
         /\ pc' = IF r.err # NoErr THEN "return" ELSE "resolve"
    /\ UNCHANGED <<environ, fs, accessToken, appSlug, buildSlug, artifactName, downloadDir,
                   artifactSlugMap, artifactSlug, artifact, reader, n, stdout, exitCode>>

(* lines 173-185: build the title-to-slug map and look the name up *)
ResolveName ==
    /\ pc = "resolve"
    /\ steps' = Append(steps, "resolve")
    /\ LET m == BuildSlugMap(artifacts) IN
       /\ artifactSlugMap' = m
       /\ IF artifactName \in DOMAIN m
          THEN /\ artifactSlug' = m[artifactName]
               /\ err' = NoErr
               /\ pc' = "details"
          ELSE /\ artifactSlug' = 0
               /\ err' = NotFoundErr(artifactName, m)
               /\ pc' = "return"
    /\ UNCHANGED <<environ, fs, accessToken, appSlug, buildSlug, artifactName, downloadDir,
                   artifacts, artifact, reader, n, requests, resp, bodies, stdout, exitCode>>

(* lines 109-112 and 89-105: DownloadArtifact calls GetArtifactDetails *)
GetArtifactDetails ==
    /\ pc = "details"
    /\ steps' = Append(steps, "details")
    /\ requests' = Append(requests,
                          getRequest(accessToken, requestPath(appSlug, buildSlug, artifactSlug)))
    /\ \E outcome \in ApiOutcomes(URLs, 0) :
         LET r == ApiCall("artifact details", appSlug, buildSlug, 0, outcome) IN
         /\ artifact' = r.art
         /\ err' = r.err
         /\ resp' = [what |-> "artifact details", got |-> r.body # "none",
                     status |-> outcome.status, valid |-> outcome.valid,
                     decoded |-> r.decoded]
         /\ bodies' = [bodies EXCEPT !["artifact details"] = r.body]
         /\ pc' = IF r.err # NoErr THEN "return" ELSE "download"
    /\ UNCHANGED <<environ, fs, accessToken, appSlug, buildSlug, artifactName, downloadDir,
                   artifacts, artifactSlugMap, artifactSlug, reader, n, stdout, exitCode>>

(* Variant: DownloadArtifact rejects a response whose status is not 2xx *)
DownloadResultCheckingStatus(outcome) ==
    LET d == Do(DefaultClientTimeout, outcome) IN
    IF d.blocked THEN [reader |-> NoBody, err |-> NoErr, blocked |-> TRUE, got |-> FALSE]
    ELSE IF ~d.got THEN [reader |-> NoBody, err |-> d.err, blocked |-> FALSE, got |-> FALSE]
    ELSE IF outcome.status >= 300 \/ outcome.status < 200
    THEN [reader |-> NoBody, err |-> StatusErr("download", outcome.status, 0, 0),
          blocked |-> FALSE, got |-> TRUE]
    ELSE [reader |-> outcome.body, err |-> NoErr, blocked |-> FALSE, got |-> TRUE]

(* What DownloadArtifact (lines 114-119) returns for the response to the   *)
(* GET of the expiring URL.                                                *)
DownloadResult(outcome) ==
    LET d == Do(DefaultClientTimeout, outcome) IN
    IF d.blocked THEN [reader |-> NoBody, err |-> NoErr, blocked |-> TRUE, got |-> FALSE]
    ELSE IF ~d.got THEN [reader |-> NoBody, err |-> d.err, blocked |-> FALSE, got |-> FALSE]
    ELSE [reader |-> outcome.body, err |-> NoErr, blocked |-> FALSE, got |-> TRUE]

(* lines 114-120 and 187-190: http.Get of the expiring URL.  An empty URL  *)
(* is rejected by the client before anything is sent.                      *)
HttpGet ==
    /\ pc = "download"
    /\ steps' = Append(steps, "download")
    /\ IF artifact = 0
       THEN /\ err' = [kind |-> "url"]
            /\ pc' = "return"
            /\ UNCHANGED <<requests, reader, resp, bodies>>
       ELSE /\ requests' = Append(requests, httpGetRequest(artifact))
            /\ \E outcome \in DirectOutcomes :
                 LET r == DownloadResult(outcome) IN
                 /\ reader' = r.reader
                 /\ err' = r.err
                 /\ resp' = [what |-> "download", got |-> r.got, status |-> outcome.status,
                             valid |-> FALSE, decoded |-> FALSE]
                 /\ bodies' = [bodies EXCEPT !["download"] = IF r.got THEN "open" ELSE "none"]
                 /\ pc' = IF r.blocked THEN "blocked"
                          ELSE IF r.err # NoErr THEN "return" ELSE "create"
    /\ UNCHANGED <<environ, fs, accessToken, appSlug, buildSlug, artifactName, downloadDir,
                   artifacts, artifactSlugMap, artifactSlug, artifact, n, stdout, exitCode>>

(* lines 192-195: os.Create creates or truncates the output file *)
CreateFile ==
    /\ pc = "create"
    /\ steps' = Append(steps, "create")
    /\ \E ok \in BOOLEAN :
         IF ok
         THEN /\ fs' = [fs EXCEPT !.file = "new", !.size = 0]
              /\ err' = NoErr
              /\ pc' = "copy"
         ELSE /\ fs' = fs
              /\ err' = FsErr("create")
              /\ pc' = "return"
    /\ UNCHANGED <<environ, accessToken, appSlug, buildSlug, artifactName, downloadDir,
                   artifacts, artifactSlugMap, artifactSlug, artifact, reader, n,
                   requests, resp, bodies, stdout, exitCode>>

(* io.Copy(file, reader): the bytes written and the error, given how many  *)
(* bytes the file accepts.  A stream that stalls blocks the copy: the      *)
(* default client set no deadline on the body.                             *)
CopyResult(stream, room) ==
    IF room < stream.len
    THEN [n |-> room, err |-> FsErr("write"), blocked |-> FALSE]
    ELSE CASE stream.end = "eof" -> [n |-> stream.len, err |-> NoErr, blocked |-> FALSE]
           [] stream.end = "readerr" -> [n |-> stream.len, err |-> NetErr(FALSE), blocked |-> FALSE]
           [] stream.end = "stall" -> [n |-> stream.len, err |-> NoErr, blocked |-> TRUE]

(* lines 196-203: io.Copy, then the report *)
Copy ==
    /\ pc = "copy"
    /\ steps' = Append(steps, "copy")
    /\ \E room \in 0..MaxBytes :
         LET r == CopyResult(reader, room) IN
         /\ fs' = [fs EXCEPT !.size = r.n]
         /\ n' = IF r.blocked THEN n ELSE r.n
         /\ err' = r.err
         /\ IF r.blocked
            THEN pc' = "blocked" /\ stdout' = stdout
            ELSE IF r.err # NoErr
            THEN pc' = "return" /\ stdout' = stdout
            ELSE pc' = "return" /\ stdout' = Append(stdout, [kind |-> "done", n |-> r.n, err |-> NoErr])
    /\ UNCHANGED <<environ, accessToken, appSlug, buildSlug, artifactName, downloadDir,
                   artifacts, artifactSlugMap, artifactSlug, artifact, reader,
                   requests, resp, bodies, exitCode>>

(* lines 206-213: main prints the error, if any, and exits *)
Exit ==
    /\ pc = "return"
    /\ stdout' = IF err # NoErr
                 THEN Append(stdout, [kind |-> "Error", n |-> 0, err |-> err])
                 ELSE stdout
    /\ exitCode' = ExitCode(err)
    /\ pc' = "exited"
    /\ UNCHANGED <<environ, fs, accessToken, appSlug, buildSlug, artifactName, downloadDir,
                   artifacts, artifactSlugMap, artifactSlug, artifact, reader, n, err,
                   requests, resp, bodies, steps>>

Next ==
    \/ ReadConfig
    \/ MkdirAll
    \/ GetArtifactsForBuild
    \/ ResolveName
    \/ GetArtifactDetails
    \/ HttpGet
    \/ CreateFile
    \/ Copy
    \/ Exit

Spec == Init /\ [][Next]_vars

(* A sequential process always takes its next step when it has one. *)
FairSpec == Spec /\ WF_vars(Next)

----------------------------------------------------------------------------
(* Properties *)

Required == <<"API_AUTH_TOKEN", "APP_SLUG", "WORKFLOW_SLUG_ID", "ARTIFACT_NAME">>

Order == <<"config", "mkdir", "list", "resolve", "details", "download", "create", "copy">>

Ran(step) == step \in Range(steps)

Found == \E i \in DOMAIN artifacts : artifacts[i].Title = artifactName

(* The last index of the listing that carries title t *)
IsLast(i, t) ==
    /\ i \in DOMAIN artifacts
    /\ artifacts[i].Title = t
    /\ \A j \in DOMAIN artifacts : j > i => artifacts[j].Title # t

Listed(pair) == \E k \in DOMAIN err.keys : err.keys[k] = pair

(* C1, as stated: when the listing has a title equal to the configured     *)
(* name, the lookup succeeds and the detail request carries the slug of a  *)
(* matching artifact; when no title matches, the run fails with the        *)
(* not-found error, whose message lists every (title, slug) pair present   *)
(* in the listing, and only the listing request was issued.                *)
C1_ListsEveryListingPair ==
    Ran("resolve") =>
        IF Found
        THEN /\ err.kind # "notfound"
             /\ Ran("details") =>
                   \E i \in DOMAIN artifacts :
                       /\ artifacts[i].Title = artifactName
                       /\ requests[2].target.artifact = artifacts[i].Slug
        ELSE /\ err.kind = "notfound"
             /\ err.name = artifactName
             /\ \A i \in DOMAIN artifacts :
                    Listed([key |-> artifacts[i].Title, value |-> artifacts[i].Slug])
             /\ Len(requests) = 1

(* C1, amended: when the listing has a title equal to the configured name, *)
(* the lookup succeeds and the detail request carries the slug of the last *)
(* artifact with that title; when no title matches, the run fails with the *)
(* not-found error, whose message lists exactly one pair per distinct      *)
(* title, with the slug of the last artifact carrying that title, and only *)
(* the listing request was issued.                                         *)
C1_ListsEveryMapPair ==
    Ran("resolve") =>
        IF Found
        THEN /\ err.kind # "notfound"
             /\ Ran("details") =>
                   \E i \in DOMAIN artifacts :
                       /\ IsLast(i, artifactName)
                       /\ requests[2].target.artifact = artifacts[i].Slug
        ELSE /\ err.kind = "notfound"
             /\ err.name = artifactName
             /\ \A i \in DOMAIN artifacts :
                    IsLast(i, artifacts[i].Title) =>
                        Listed([key |-> artifacts[i].Title, value |-> artifacts[i].Slug])
             /\ \A k \in DOMAIN err.keys :
                    \E i \in DOMAIN artifacts :
                        /\ IsLast(i, artifacts[i].Title)
                        /\ err.keys[k] = [key |-> artifacts[i].Title, value |-> artifacts[i].Slug]
             /\ Len(err.keys) = Cardinality({artifacts[i].Title : i \in DOMAIN artifacts})
             /\ Len(requests) = 1

C1_Witness ==
    /\ pc = "exited"
    /\ err.kind = "notfound"
    /\ Len(artifacts) = 2
    /\ artifacts[1].Title = artifacts[2].Title
    /\ artifacts[1].Slug # artifacts[2].Slug
    /\ Len(err.keys) = 1

(* C2: once the configuration has been read, if one of the four required   *)
(* variables is unset or empty, the error names the first missing one (in  *)
(* the order token, app, build, artifact name), mainE has returned, and no *)
(* HTTP request has been made.                                             *)
C2_MissingEnvNamed ==
    Ran("config") =>
        \A i \in 1..4 :
            (/\ environ[Required[i]] = 0
             /\ \A j \in 1..(i - 1) : environ[Required[j]] # 0)
            => /\ err = [kind |-> "noenv", env |-> Required[i]]
               /\ pc \in {"return", "exited"}
               /\ requests = <<>>
               /\ steps = <<"config">>

C2_Witness ==
    /\ pc = "exited"
    /\ environ["API_AUTH_TOKEN"] # 0
    /\ environ["APP_SLUG"] # 0
    /\ environ["WORKFLOW_SLUG_ID"] # 0
    /\ environ["ARTIFACT_NAME"] = 0
    /\ err.kind = "noenv"

IsPrefix(s, t) == Len(s) <= Len(t) /\ \A i \in DOMAIN s : s[i] = t[i]

(* C3: the steps run in the fixed order, each at most once; once a step    *)
(* has failed no request is sent, the file system is not touched and no    *)
(* step runs; the process exits 1 with the error printed when a step       *)
(* failed, and exits 0 only when all eight steps ran without error.        *)
C3_AbortOnFirstFailure ==
    /\ [](/\ IsPrefix(steps, Order)
          /\ Len(requests) <= 3
          /\ err # NoErr => pc \in {"return", "exited"}
          /\ pc = "exited" =>
                /\ exitCode \in {0, 1}
                /\ exitCode = 1 <=> err # NoErr
                /\ exitCode = 1 => stdout = <<[kind |-> "Error", n |-> 0, err |-> err]>>
                /\ exitCode = 0 => steps = Order
          /\ pc # "exited" => exitCode = -1)
    /\ [][err # NoErr => /\ requests' = requests
                         /\ fs' = fs
                         /\ steps' = steps
                         /\ err' = err]_vars

C3_Witness ==
    /\ pc = "exited"
    /\ exitCode = 1
    /\ steps = <<"config", "mkdir", "list", "resolve", "details">>
    /\ Len(requests) = 2
    /\ fs.file = "old"

(* C4: for the listing and the detail call, a response whose status is     *)
(* outside [200,300) yields the status error and its body is never         *)
(* decoded, valid or not; a body is decoded only under a 2xx status, so a  *)
(* decode error only ever comes with a 2xx status.                         *)
C4_StatusBeforeDecode ==
    resp.what \in {"artifacts", "artifact details"} =>
        /\ (resp.got /\ resp.status \notin 200..299) =>
               /\ ~resp.decoded
               /\ err.kind = "status"
               /\ err.what = resp.what
        /\ resp.decoded => resp.got /\ resp.status \in 200..299
        /\ err.kind = "decode" => resp.status \in 200..299
        /\ (resp.got /\ resp.status \in 200..299) => resp.decoded

C4_Witness ==
    /\ resp.what = "artifact details"
    /\ resp.got
    /\ resp.status = 300
    /\ ~resp.valid
    /\ err.kind = "status"

(* C5: once the map is built, its keys are exactly the titles of the       *)
(* listing, and each title maps to the slug of the last artifact that      *)
(* carries it.                                                             *)
C5_LastTitleWins ==
    Ran("resolve") =>
        /\ DOMAIN artifactSlugMap = {artifacts[i].Title : i \in DOMAIN artifacts}
        /\ \A i \in DOMAIN artifacts :
               IsLast(i, artifacts[i].Title) =>
                   artifactSlugMap[artifacts[i].Title] = artifacts[i].Slug

C5_Witness ==
    /\ Ran("resolve")
    /\ Len(artifacts) = 2
    /\ artifacts[1].Title = artifacts[2].Title
    /\ artifacts[1].Slug # artifacts[2].Slug
    /\ artifactSlugMap[artifacts[1].Title] = artifacts[2].Slug

(* C6: when the process has exited, no response body it obtained (listing, *)
(* detail, download) is still open.                                        *)
C6_NoBodyOpenAtExit ==
    pc = "exited" => \A op \in DOMAIN bodies : bodies[op] # "open"

(* C7: the listing and detail requests go to the fixed API base URL with   *)
(* the configured token in the Authorization header; the request to the    *)
(* expiring URL carries no token; no request that carries the token goes   *)
(* anywhere but the API base URL.                                          *)
C7_TokenOnlyToApi ==
    \A i \in DOMAIN requests :
        LET r == requests[i] IN
        /\ i <= 2 => /\ r.base = "https://api.bitrise.io"
                     /\ r.version = "v0.1"
                     /\ r.target.url = 0
                     /\ r.auth = environ["API_AUTH_TOKEN"]
                     /\ r.auth # 0
        /\ i = 3 => /\ r.target.url # 0
                    /\ r.base = ""
                    /\ r.auth = 0
        /\ r.auth # 0 => r.base = "https://api.bitrise.io"

C7_Witness ==
    /\ Len(requests) = 3
    /\ requests[1].auth = 1
    /\ requests[2].auth = 1
    /\ requests[3].auth = 0
    /\ requests[3].target.url = 1

(* C8: every run eventually exits, with status 0 or 1. *)
C8_EveryRunExits == <>(pc = "exited" /\ exitCode \in {0, 1})

(* C9: a status error carries the status code of the response, the         *)
(* application identifier under the app_slug label and the build           *)
(* identifier under the build_slug label.                                  *)
C9_StatusErrorLabels ==
    err.kind = "status" =>
        /\ err.code = resp.status
        /\ err.app_slug = appSlug
        /\ err.build_slug = buildSlug

(* C10, as stated: whenever the GET of the expiring URL got a response,    *)
(* whatever its status, DownloadArtifact returned its body without error,  *)
(* and the process exits 0 with the body written to the output file and    *)
(* its length reported.                                                    *)
C10_AnyResponseExitsZero ==
    (resp.what = "download" /\ resp.got) =>
        /\ pc = "create" => err = NoErr /\ bodies["download"] = "open"
        /\ pc = "exited" =>
               /\ exitCode = 0
               /\ fs.file = "new"
               /\ fs.size = reader.len
               /\ stdout = <<[kind |-> "done", n |-> reader.len, err |-> NoErr]>>

(* C10, amended: whenever the GET of the expiring URL got a response,      *)
(* whatever its status, DownloadArtifact returned its body without error;  *)
(* provided the output file is then created and the copy completes without *)
(* a read or write error, the process exits 0 with the body written to the *)
(* output file and its length reported.                                    *)
C10_AnyResponseIsAccepted ==
    (resp.what = "download" /\ resp.got) =>
        /\ pc = "create" => err = NoErr /\ bodies["download"] = "open"
        /\ (pc \in {"return", "exited"} /\ err.kind \notin {"fs", "net"}) =>
               /\ err = NoErr
               /\ fs.file = "new"
               /\ fs.size = reader.len
               /\ n = reader.len
               /\ stdout[1] = [kind |-> "done", n |-> reader.len, err |-> NoErr]
        /\ (pc = "exited" /\ err = NoErr) => exitCode = 0 /\ Len(stdout) = 1

C10_Witness ==
    /\ pc = "exited"
    /\ resp.what = "download"
    /\ resp.status = 404
    /\ exitCode = 0
    /\ reader.len = 2
    /\ fs.size = 2
    /\ stdout = <<[kind |-> "done", n |-> 2, err |-> NoErr]>>

====
